---- MODULE Spec2Model ----
(***************************************************************************)
(* Grid pathfinding visualizer (src/app.py): the session state (grid,      *)
(* start, goal, current_tool, running, message), the editor callbacks      *)
(* (set_tool, handle_cell_click, clear_path, initialize_grid), the         *)
(* "Find Path" branch of main and bfs_search, one step per statement group *)
(* between two st.rerun() calls.                                           *)
(*                                                                         *)
(* st.rerun() is a call into the UI framework: under a script run it       *)
(* raises and ends the run of the script (nothing after it executes);      *)
(* without a script-run context it returns. Both outcomes are modelled     *)
(* (RerunHalts, RerunReturns).                                             *)
(***************************************************************************)
EXTENDS Integers, Sequences, FiniteSets, TLC

\* ---- bounds ----
GRID_SIZE == 3
MaxWalls == 2

\* ---- configuration ----
None == <<>>

Kinds == {"E", "S", "G", "W", "V", "P"}

Tools == {"S", "G", "W", "E"}

CELL_TYPES ==
  [k \in Kinds |->
     CASE k = "E" -> "Empty"
       [] k = "S" -> "Start"
       [] k = "G" -> "Goal"
       [] k = "W" -> "Wall"
       [] k = "V" -> "Visited"
       [] k = "P" -> "Path"]

Coords == (0 .. GRID_SIZE - 1) \X (0 .. GRID_SIZE - 1)

\* the status line: st.session_state.message, its format arguments kept
Msg(kind, at, name, dist) == [kind |-> kind, at |-> at, name |-> name, dist |-> dist]

VARIABLES
  grid,          \* st.session_state.grid
  start,         \* st.session_state.start
  goal,          \* st.session_state.goal
  current_tool,  \* st.session_state.current_tool
  running,       \* st.session_state.running (absent = False)
  message,       \* st.session_state.message
  warning,       \* st.warning shown by the last script run
  pc,            \* position of the script: "idle" or a place in bfs_search
  queue,         \* bfs_search: queue
  parent,        \* bfs_search: parent
  cur,           \* bfs_search: (r, c) of the current iteration
  path,          \* bfs_search: path (goal first)
  pidx,          \* bfs_search: position in reversed(path), counted in path
  dequeued,      \* history: coordinates popped from queue in this run
  updates        \* history: the st.rerun() calls of this run, in order

session == <<grid, start, goal, current_tool, running, message, warning>>

locals == <<queue, parent, cur, path, pidx>>

history == <<dequeued, updates>>

vars == <<grid, start, goal, current_tool, running, message, warning, pc,
          queue, parent, cur, path, pidx, dequeued, updates>>

\* ---- initialize_grid ----
EmptyGrid == [x \in Coords |-> "E"]

WelcomeMsg == Msg("Welcome", None, "", -1)

NoLocals ==
  /\ queue = <<>>
  /\ parent = <<>>
  /\ cur = None
  /\ path = <<>>
  /\ pidx = 0

Init ==
  /\ grid = EmptyGrid
  /\ start = None
  /\ goal = None
  /\ current_tool = "S"
  /\ running = FALSE
  /\ message = WelcomeMsg
  /\ warning = FALSE
  /\ pc = "idle"
  /\ NoLocals
  /\ dequeued = <<>>
  /\ updates = <<>>

\* ---- clear_path ----
\* as ClearedGrid, the 'V' cells kept
ClearedGridKeepsVisited(g) == [x \in Coords |-> IF g[x] = "P" THEN "E" ELSE g[x]]

\* as ClearedGrid, the 'P' cells kept
ClearedGridKeepsPath(g) == [x \in Coords |-> IF g[x] = "V" THEN "E" ELSE g[x]]

ClearedGrid(g) == [x \in Coords |-> IF g[x] \in {"V", "P"} THEN "E" ELSE g[x]]

PathClearedMsg == Msg("PathCleared", None, "", -1)


\* ---- handle_cell_click, one operator per tool branch ----
\* as SetStartGrid, the old start cell left as it is
SetStartGridKeepsOld(g, s, cell) == [g EXCEPT ![cell] = "S"]

\* tool 'S': the old start cell is emptied, the clicked cell becomes 'S'
SetStartGrid(g, s, cell) ==
  LET g1 == IF s # None THEN [g EXCEPT ![s] = "E"] ELSE g
  IN  [g1 EXCEPT ![cell] = "S"]

\* tool 'G': the old goal cell is emptied, the clicked cell becomes 'G'
SetGoalGrid(g, gl, cell) ==
  LET g1 == IF gl # None THEN [g EXCEPT ![gl] = "E"] ELSE g
  IN  [g1 EXCEPT ![cell] = "G"]

\* as ToggleWallKind, a wall never removed
ToggleWallKindNoRemoval(k) == IF k \in {"S", "G"} THEN k ELSE "W"

\* as ToggleWallKind, without the test for an endpoint
ToggleWallKindAnyCell(k) == IF k = "W" THEN "E" ELSE "W"

\* tool 'W': the kind the clicked cell gets
ToggleWallKind(k) ==
  IF k = "W" THEN "E"
  ELSE IF k \in {"S", "G"} THEN k
  ELSE "W"

ToggleWallMsg(k) ==
  IF k = "W" THEN Msg("WallRemoved", None, "", -1)
  ELSE IF k \in {"S", "G"} THEN Msg("CannotWall", None, CELL_TYPES[k], -1)
  ELSE Msg("WallPlaced", None, "", -1)

\* the session grid after handle_cell_click(r, c); no branch handles tool 'E'
ClickGrid(g, s, gl, tool, cell) ==
  LET g0 == ClearedGrid(g)
  IN  CASE tool = "S" -> SetStartGrid(g0, s, cell)
        [] tool = "G" -> SetGoalGrid(g0, gl, cell)
        [] tool = "W" -> [g0 EXCEPT ![cell] = ToggleWallKind(g0[cell])]
        [] OTHER -> g0

\* as ClickStart, st.session_state.start not updated
ClickStartStale(s, tool, cell) == s

ClickStart(s, tool, cell) == IF tool = "S" THEN cell ELSE s

ClickGoal(gl, tool, cell) == IF tool = "G" THEN cell ELSE gl

ClickMsg(g, tool, cell) ==
  CASE tool = "S" -> Msg("StartSet", cell, "", -1)
    [] tool = "G" -> Msg("GoalSet", cell, "", -1)
    [] tool = "W" -> ToggleWallMsg(ClearedGrid(g)[cell])
    [] OTHER -> PathClearedMsg

WallCount(g) == Cardinality({x \in Coords : g[x] = "W"})

\* a cell button is pressed; the buttons are disabled while running is set
CellClick(cell) ==
  /\ pc = "idle"
  /\ ~running
  /\ (current_tool = "W" /\ ClearedGrid(grid)[cell] = "E") => WallCount(grid) < MaxWalls
  /\ grid' = ClickGrid(grid, start, goal, current_tool, cell)
  /\ start' = ClickStart(start, current_tool, cell)
  /\ goal' = ClickGoal(goal, current_tool, cell)
  /\ message' = ClickMsg(grid, current_tool, cell)
  /\ warning' = FALSE
  /\ UNCHANGED <<current_tool, running, pc, locals, history>>

\* ---- main.set_tool: the tool buttons are never disabled ----
ToolChangedMsg(tool_key) == Msg("ToolChanged", None, CELL_TYPES[tool_key], -1)

SetTool(tool_key) ==
  /\ pc = "idle"
  /\ grid' = ClearedGrid(grid)
  /\ current_tool' = tool_key
  /\ message' = ToolChangedMsg(tool_key)
  /\ warning' = FALSE
  /\ UNCHANGED <<start, goal, running, pc, locals, history>>

\* ---- the "Clear Path" button: on_click=clear_path, disabled while running ----
ClearPathClick ==
  /\ pc = "idle"
  /\ ~running
  /\ grid' = ClearedGrid(grid)
  /\ message' = PathClearedMsg
  /\ warning' = FALSE
  /\ UNCHANGED <<start, goal, current_tool, running, pc, locals, history>>

\* ---- the "Reset Grid" button: on_click=initialize_grid, disabled while running ----
ResetClick ==
  /\ pc = "idle"
  /\ ~running
  /\ grid' = EmptyGrid
  /\ start' = None
  /\ goal' = None
  /\ current_tool' = "S"
  /\ message' = WelcomeMsg
  /\ warning' = FALSE
  /\ UNCHANGED <<running, pc, locals, history>>


\* ---- main, the "Find Path" button (never disabled) ----
SearchingMsg == Msg("Searching", None, "", -1)

\* start and goal are set: clear_path, running, then bfs_search up to its loop
FindPath ==
  /\ pc = "idle"
  /\ start # None /\ goal # None
  /\ grid' = ClearedGrid(grid)
  /\ running' = TRUE
  /\ message' = SearchingMsg
  /\ warning' = FALSE
  /\ queue' = <<start>>
  /\ parent' = (start :> None)
  /\ cur' = None
  /\ path' = <<>>
  /\ pidx' = 0
  /\ dequeued' = <<>>
  /\ updates' = <<>>
  /\ pc' = "loop"
  /\ UNCHANGED <<start, goal, current_tool>>

\* as FindPathRefused, running set before the test of start and goal
FindPathRefusedSetsRunning ==
  /\ pc = "idle"
  /\ ~(start # None /\ goal # None)
  /\ warning' = TRUE
  /\ running' = TRUE
  /\ UNCHANGED <<grid, start, goal, current_tool, message, pc, locals, history>>

\* start or goal is missing: st.warning, nothing else
FindPathRefused ==
  /\ pc = "idle"
  /\ ~(start # None /\ goal # None)
  /\ warning' = TRUE
  /\ UNCHANGED <<grid, start, goal, current_tool, running, message, pc, locals, history>>

\* ---- bfs_search ----
rows(g) == GRID_SIZE

cols(g) == GRID_SIZE

\* N, S, E, W
directions == << <<-1, 0>>, <<1, 0>>, <<0, 1>>, <<0, -1>> >>

\* as Enqueue, the coordinate put at the front (a stack)
EnqueueInFront(q, n) == <<n>> \o q

\* the queue after a coordinate is discovered
Enqueue(q, n) == Append(q, n)

\* as Discoverable, without the test for a wall
DiscoverableThroughWalls(g, par, n) ==
  /\ 0 <= n[1] /\ n[1] < rows(g)
  /\ 0 <= n[2] /\ n[2] < cols(g)
  /\ n \notin DOMAIN par

\* the test of line 88, evaluated left to right
Discoverable(g, par, n) ==
  /\ 0 <= n[1] /\ n[1] < rows(g)
  /\ 0 <= n[2] /\ n[2] < cols(g)
  /\ g[n] # "W"
  /\ n \notin DOMAIN par

\* the neighbour loop from direction i on: the queue and parent map it leaves
RECURSIVE ExploreFrom(_, _, _, _, _)
ExploreFrom(i, g, q, par, cell) ==
  IF i > Len(directions) THEN [queue |-> q, parent |-> par]
  ELSE LET n == <<cell[1] + directions[i][1], cell[2] + directions[i][2]>>
       IN  IF Discoverable(g, par, n)
           THEN ExploreFrom(i + 1, g, Enqueue(q, n), par @@ (n :> cell), cell)
           ELSE ExploreFrom(i + 1, g, q, par, cell)

Explore(g, q, par, cell) == ExploreFrom(1, g, q, par, cell)

\* path reconstruction: goal first, following parent up to the None of start
RECURSIVE Reconstruct(_, _)
Reconstruct(current, par) ==
  IF current = None THEN <<>>
  ELSE <<current>> \o Reconstruct(par[current], par)

\* as MarksVisited, the goal not excepted
MarksVisitedGoalToo(cell, s, gl) == cell # s

\* whether the dequeued coordinate gets the 'V' marking (line 73)
MarksVisited(cell, s, gl) == cell # s /\ cell # gl

\* whether a path coordinate gets the 'P' marking (line 102)
MarksPath(cell, s, gl) == cell # s /\ cell # gl

\* lines 69-90 up to the first st.rerun(): pop, mark, goal test, neighbours
BfsDequeue ==
  /\ pc = "loop"
  /\ queue # <<>>
  /\ LET cell == Head(queue)
         q == Tail(queue)
     IN  /\ cur' = cell
         /\ dequeued' = Append(dequeued, cell)
         /\ IF MarksVisited(cell, start, goal)
            THEN /\ grid' = [grid EXCEPT ![cell] = "V"]
                 /\ updates' = Append(updates, <<"V", cell>>)
                 /\ queue' = q
                 /\ pc' = "rerun_visit"
                 /\ UNCHANGED <<parent, path, pidx>>
            ELSE IF cell = goal
            THEN /\ path' = Reconstruct(goal, parent)
                 /\ pidx' = Len(Reconstruct(goal, parent))
                 /\ queue' = q
                 /\ pc' = "mark_path"
                 /\ UNCHANGED <<grid, parent, updates>>
            ELSE /\ queue' = Explore(grid, q, parent, cell).queue
                 /\ parent' = Explore(grid, q, parent, cell).parent
                 /\ pc' = "loop"
                 /\ UNCHANGED <<grid, path, pidx, updates>>
  /\ UNCHANGED <<start, goal, current_tool, running, message, warning>>

\* lines 101-105: the next coordinate of reversed(path)
BfsMarkPath ==
  /\ pc = "mark_path"
  /\ pidx >= 1
  /\ pidx' = pidx - 1
  /\ IF MarksPath(path[pidx], start, goal)
     THEN /\ grid' = [grid EXCEPT ![path[pidx]] = "P"]
          /\ updates' = Append(updates, <<"P", path[pidx]>>)
          /\ pc' = "rerun_path"
     ELSE UNCHANGED <<grid, updates, pc>>
  /\ UNCHANGED <<start, goal, current_tool, running, message, warning,
                 queue, parent, cur, path, dequeued>>

\* as PathFoundMsg, the coordinates of the path counted instead of its hops
PathFoundMsgCountsCells(p) == Msg("PathFound", None, "", Len(p))

\* line 107, then lines 111-112
PathFoundMsg(p) == Msg("PathFound", None, "", Len(p) - 1)

BfsReportFound ==
  /\ pc = "mark_path"
  /\ pidx = 0
  /\ message' = PathFoundMsg(path)
  /\ updates' = Append(updates, <<"Done", TRUE, Len(path) - 1>>)
  /\ pc' = "rerun_final"
  /\ UNCHANGED <<grid, start, goal, current_tool, running, warning, locals, dequeued>>

\* the queue is empty: line 109, then lines 111-112
NoPathMsg == Msg("NoPath", None, "", -1)

BfsReportNoPath ==
  /\ pc = "loop"
  /\ queue = <<>>
  /\ message' = NoPathMsg
  /\ updates' = Append(updates, <<"Done", FALSE, -1>>)
  /\ pc' = "rerun_final"
  /\ UNCHANGED <<grid, start, goal, current_tool, running, warning, locals, dequeued>>

\* ---- st.rerun() ----
AtRerun == pc \in {"rerun_visit", "rerun_path", "rerun_final"}

\* st.rerun() ends the script run: nothing after it executes, the session
\* state stays as it is, the script is run again from the top and waits
RerunHalts ==
  /\ AtRerun
  /\ pc' = "idle"
  /\ queue' = <<>>
  /\ parent' = <<>>
  /\ cur' = None
  /\ path' = <<>>
  /\ pidx' = 0
  /\ dequeued' = <<>>
  /\ updates' = <<>>
  /\ UNCHANGED session

\* st.rerun() returns: line 79 on after a 'V' marking, the path loop after a
\* 'P' marking, and line 474 of main after the last one
RerunReturns ==
  /\ AtRerun
  /\ CASE pc = "rerun_visit" ->
            /\ queue' = Explore(grid, queue, parent, cur).queue
            /\ parent' = Explore(grid, queue, parent, cur).parent
            /\ pc' = "loop"
            /\ UNCHANGED <<running, cur, path, pidx, history>>
       [] pc = "rerun_path" ->
            /\ pc' = "mark_path"
            /\ UNCHANGED <<running, locals, history>>
       [] pc = "rerun_final" ->
            /\ running' = FALSE
            /\ pc' = "idle"
            /\ queue' = <<>>
            /\ parent' = <<>>
            /\ cur' = None
            /\ path' = <<>>
            /\ pidx' = 0
            /\ dequeued' = <<>>
            /\ updates' = <<>>
  /\ UNCHANGED <<grid, start, goal, current_tool, message, warning>>

\* ---- the program ----
Next ==
  \/ \E t \in Tools : SetTool(t)
  \/ \E cell \in Coords : CellClick(cell)
  \/ ClearPathClick
  \/ ResetClick
  \/ FindPath
  \/ FindPathRefused
  \/ BfsDequeue
  \/ BfsMarkPath
  \/ BfsReportFound
  \/ BfsReportNoPath
  \/ RerunHalts
  \/ RerunReturns

Spec == Init /\ [][Next]_vars


\* the script run goes on; the user keeps using whatever is enabled
FairSpec ==
  /\ Spec
  /\ WF_vars(BfsDequeue) /\ WF_vars(BfsMarkPath)
  /\ WF_vars(BfsReportFound) /\ WF_vars(BfsReportNoPath)
  /\ WF_vars(RerunHalts \/ RerunReturns)
  /\ WF_vars(\E t \in Tools : SetTool(t))
  /\ WF_vars(FindPath)

\* ---- notions the properties use ----
CellsOf(g, k) == {x \in Coords : g[x] = k}

UserKinds == {"E", "S", "G", "W"}

Abs(n) == IF n < 0 THEN -n ELSE n

Adjacent(a, b) == Abs(a[1] - b[1]) + Abs(a[2] - b[2]) = 1

\* a set of cells and the non-Wall cells one move away from it
Grow(g, b) ==
  b \cup UNION {IF g[y] # "W" /\ (\E x \in b : Adjacent(x, y)) THEN {y} ELSE {} :
                  y \in Coords}

MaxDist == GRID_SIZE * GRID_SIZE

\* the length of a shortest path of non-Wall cells from the cells b, which are
\* within k moves of the start, to t: exhaustive search, layer by layer; -1 if
\* there is none
RECURSIVE DistFrom(_, _, _, _)
DistFrom(g, b, t, k) ==
  IF t \in b THEN k
  ELSE IF k >= MaxDist THEN -1
  ELSE LET nb == Grow(g, b) IN DistFrom(g, nb, t, k + 1)

ShortestDist(g, s, t) == DistFrom(g, IF g[s] # "W" THEN {s} ELSE {}, t, 0)

PathExists(g, s, t) == ShortestDist(g, s, t) # -1

Reverse(q) == [i \in 1 .. Len(q) |-> q[Len(q) + 1 - i]]

IsEndpoint(c) == c = start \/ c = goal

Interior(q) == SelectSeq(q, LAMBDA c : ~IsEndpoint(c))


\* ---- the editor ----

\* C1: in every reachable state the grid holds at most one Start cell and at
\* most one Goal cell.
AtMostOneStartAndGoal ==
  /\ Cardinality(CellsOf(grid, "S")) <= 1
  /\ Cardinality(CellsOf(grid, "G")) <= 1

\* the start was just placed (at a cell other than the goal's) while a goal
\* is on the grid: both endpoints are there, once each
StartPlacedBesideGoal ==
  /\ message.kind = "StartSet"
  /\ goal # None /\ goal # start
  /\ CellsOf(grid, "S") = {start}
  /\ CellsOf(grid, "G") = {goal}

\* C2: whenever startCell is set the cell there is marked Start, and whenever
\* goalCell is set the cell there is marked Goal.
EndpointsPointAtTheirMarks ==
  /\ start # None => grid[start] = "S"
  /\ goal # None => grid[goal] = "G"

\* C5: while running is set, a tool selection, a cell click and a reset each
\* leave the grid, startCell, goalCell and the active tool as they are.
IsEditorCommand ==
  \/ \E t \in Tools : SetTool(t)
  \/ \E cell \in Coords : CellClick(cell)
  \/ ResetClick

RunningRejectsEditorCommands ==
  [][(running /\ IsEditorCommand) => UNCHANGED <<grid, start, goal, current_tool>>]_vars

\* C8: a click with the Start or the Goal tool on a Wall cell leaves the cell
\* Wall and startCell, goalCell and every user-authored cell as they are; and
\* neither startCell nor goalCell ever designates a Wall cell.
IsEndpointClickOnWall(cell) ==
  /\ CellClick(cell)
  /\ current_tool \in {"S", "G"}
  /\ grid[cell] = "W"

EndpointOnWallRejected ==
  /\ [][\A cell \in Coords :
          IsEndpointClickOnWall(cell) =>
            /\ grid'[cell] = "W"
            /\ start' = start /\ goal' = goal
            /\ \A x \in Coords : grid[x] \in UserKinds => grid'[x] = grid[x]]_vars
  /\ [](/\ start # None => grid[start] # "W"
        /\ goal # None => grid[goal] # "W")

\* C9: a click with the Wall tool on a Start or Goal cell changes no Start,
\* Goal, Wall or Empty cell, leaves startCell and goalCell as they are, and
\* leaves the rejection message as the status.
IsWallClickOnEndpoint(cell) ==
  /\ CellClick(cell)
  /\ current_tool = "W"
  /\ grid[cell] \in {"S", "G"}

WallOnEndpointRejected ==
  [][\A cell \in Coords :
       IsWallClickOnEndpoint(cell) =>
         /\ grid'[cell] = grid[cell]
         /\ \A x \in Coords : grid[x] \in UserKinds => grid'[x] = grid[x]
         /\ start' = start /\ goal' = goal
         /\ message' = Msg("CannotWall", None, CELL_TYPES[grid[cell]], -1)]_vars

\* the status after a Wall-tool click on an endpoint, both endpoints in place
WallOnEndpointWasRejected ==
  /\ message.kind = "CannotWall"
  /\ current_tool = "W"
  /\ start # None /\ grid[start] = "S"
  /\ goal # None /\ grid[goal] = "G"

\* C10: a click with the Erase tool leaves the clicked cell Empty whatever its
\* kind was, and clears startCell, goalCell when the cell was that endpoint.
IsEraseClick(cell) ==
  /\ CellClick(cell)
  /\ current_tool = "E"

EraseEmptiesTheCell ==
  [][\A cell \in Coords :
       IsEraseClick(cell) =>
         /\ grid'[cell] = "E"
         /\ start = cell => start' = None
         /\ goal = cell => goal' = None]_vars


\* ---- the search ----
SearchCompleted == pc = "rerun_final"

\* C3: when start and goal are distinct and joined by a path of non-Wall
\* cells, a completed search reports the path as found and the distance it
\* reports, the number of path coordinates minus 1, is the shortest length.
CompletedSearchFindsShortest ==
  (SearchCompleted /\ start # goal) =>
    \A d \in {ShortestDist(grid, start, goal)} :
      d # -1 => /\ message = Msg("PathFound", None, "", d)
                /\ Len(path) - 1 = d

\* a completed search whose shortest path is a detour round walls
FoundDetour ==
  /\ SearchCompleted
  /\ message.kind = "PathFound"
  /\ grid[start] = "S" /\ grid[goal] = "G"
  /\ message.dist = 4
  /\ Abs(start[1] - goal[1]) + Abs(start[2] - goal[2]) = 2

\* C4: when no path of non-Wall cells joins start and goal, the search ends
\* with the frontier empty, reports not found and marks no cell Path.
SearchWithoutPathReportsNone ==
  (pc # "idle" /\ ~PathExists(grid, start, goal)) =>
    /\ CellsOf(grid, "P") = {}
    /\ SearchCompleted => (queue = <<>> /\ message = NoPathMsg)

\* C6: once a search has set running, a state where running is false follows.
StartedSearchStopsRunning == running ~> ~running

\* C7: the updates of a run are the Visited markings of the dequeued
\* coordinates other than start and goal, in dequeue order, then, if the goal
\* was found, the Path markings of the path coordinates other than start and
\* goal from start to goal, then one completion outcome, which is last.
VisitUpdates == [i \in 1 .. Len(Interior(dequeued)) |-> <<"V", Interior(dequeued)[i]>>]

PathUpdates ==
  [i \in 1 .. Len(Interior(Reverse(path))) |-> <<"P", Interior(Reverse(path))[i]>>]

IsPrefix(p, q) == Len(p) <= Len(q) /\ SubSeq(q, 1, Len(p)) = p

Found == path # <<>>

UpdatesInOrder ==
  pc # "idle" =>
    /\ Found => (Reverse(path)[1] = start /\ Reverse(path)[Len(path)] = goal)
    /\ IF SearchCompleted
       THEN /\ updates = VisitUpdates \o PathUpdates
                           \o << <<"Done", Found, IF Found THEN Len(path) - 1 ELSE -1>> >>
            /\ Len(updates) = Len(Interior(dequeued))
                                + (IF Found THEN Len(Interior(path)) ELSE 0) + 1
            /\ message.kind = (IF Found THEN "PathFound" ELSE "NoPath")
       ELSE /\ IsPrefix(VisitUpdates, updates)
            /\ IsPrefix(updates, VisitUpdates \o PathUpdates)
            /\ \A i \in 1 .. Len(updates) : updates[i][1] # "Done"

\* a completed run with Visited markings, Path markings and the outcome
RunWithAllUpdates ==
  /\ SearchCompleted
  /\ Len(Interior(dequeued)) >= 2
  /\ Len(Interior(path)) >= 2
  /\ Len(updates) = Len(Interior(dequeued)) + Len(Interior(path)) + 1

\* ---- the run command ----

\* C11: a Find Path press while startCell or goalCell is unset executes no
\* search: no cell changes, startCell and goalCell stay as they are, and
\* running is false before and after.
IsSearchWithoutEndpoint ==
  /\ pc = "idle"
  /\ start = None \/ goal = None
  /\ warning' = TRUE

SearchWithoutEndpointRefused ==
  [][IsSearchWithoutEndpoint =>
       /\ grid' = grid
       /\ start' = start /\ goal' = goal
       /\ ~running /\ ~running'
       /\ pc' = "idle" /\ queue' = <<>>]_vars

\* the warning is up after a press with the start placed and no goal
SearchRefusedForMissingGoal ==
  /\ warning
  /\ start # None /\ goal = None
  /\ grid[start] = "S"

\* C12: a Find Path press when startCell and goalCell are the same coordinate
\* executes no search: no run of bfs_search is under way with start = goal.
NoSearchWithStartOnGoal == pc # "idle" => start # goal

\* ---- clear_path and the stale markings ----

\* C13: the Clear Path command turns every Visited or Path cell into Empty and
\* leaves every Start, Goal, Wall and Empty cell, startCell, goalCell and the
\* active tool as they are; a second application changes nothing more.
ClearPathClearsOnlyMarkings ==
  [][ClearPathClick =>
       /\ \A x \in Coords :
            /\ grid[x] \in {"V", "P"} => grid'[x] = "E"
            /\ grid[x] \in UserKinds => grid'[x] = grid[x]
       /\ start' = start /\ goal' = goal /\ current_tool' = current_tool
       /\ \A x \in Coords : grid'[x] \notin {"V", "P"}
       /\ ClearedGrid(grid') = grid']_vars

\* the markings of a completed search are gone, the endpoints and a wall stay
PathClearedAfterSearch ==
  /\ message = PathClearedMsg
  /\ current_tool = "W"
  /\ ~running
  /\ start # None /\ grid[start] = "S"
  /\ goal # None /\ grid[goal] = "G"
  /\ CellsOf(grid, "W") # {}
  /\ CellsOf(grid, "V") \cup CellsOf(grid, "P") = {}

\* C14: a click with the Start tool on a non-Wall cell makes that cell the only
\* Start cell and startCell; a prior start at another coordinate is Empty
\* afterwards.
IsStartClickOffWall(cell) ==
  /\ CellClick(cell)
  /\ current_tool = "S"
  /\ grid[cell] # "W"

StartClickMovesTheStart ==
  [][\A cell \in Coords : IsStartClickOffWall(cell) =>
       /\ CellsOf(grid', "S") = {cell}
       /\ start' = cell
       /\ (start # None /\ start # cell) => grid'[start] = "E"]_vars

\* the start was moved away from a marked start cell, the goal stands elsewhere
StartMovedElsewhere ==
  /\ message.kind = "StartSet"
  /\ start = message.at
  /\ CellsOf(grid, "S") = {start}
  /\ goal # None /\ goal # start /\ grid[goal] = "G"
  /\ Cardinality(CellsOf(grid, "E")) = GRID_SIZE * GRID_SIZE - 2

\* C15: two consecutive Wall-tool clicks on a cell whose kind is Empty or Wall
\* return it to its original kind (the first one changes it), and leave every
\* other Start, Goal, Wall and Empty cell and both cached endpoints unchanged.
WallClickedTwice(cell) ==
  LET g1 == ClickGrid(grid, start, goal, "W", cell)
      s1 == ClickStart(start, "W", cell)
      gl1 == ClickGoal(goal, "W", cell)
      g2 == ClickGrid(g1, s1, gl1, "W", cell)
  IN  /\ g1[cell] \in {"E", "W"} \ {grid[cell]}
      /\ g2[cell] = grid[cell]
      /\ \A x \in Coords \ {cell} : grid[x] \in UserKinds => g2[x] = grid[x]
      /\ ClickStart(s1, "W", cell) = start
      /\ ClickGoal(gl1, "W", cell) = goal

WallToggleIsItsOwnInverse ==
  (pc = "idle" /\ ~running /\ current_tool = "W") =>
    \A cell \in Coords : grid[cell] \in {"E", "W"} => WallClickedTwice(cell)

\* a wall was just taken away again with the Wall tool, the endpoints placed
WallPlacedAndRemoved ==
  /\ message.kind = "WallRemoved"
  /\ current_tool = "W"
  /\ ~running /\ pc = "idle"
  /\ start # None /\ goal # None /\ start # goal
  /\ grid[start] = "S" /\ grid[goal] = "G"
  /\ CellsOf(grid, "W") = {}

\* ---- the markings of a search ----

\* C16: no step of a search run, from the Find Path press on, changes a cell
\* that is marked Start, Goal or Wall: the Visited and Path markings are
\* written on other cells only.
IsSearchStep == pc # "idle" \/ pc' # "idle"

SearchKeepsIdentityCells ==
  [][IsSearchStep =>
       \A x \in Coords : grid[x] \in {"S", "G", "W"} => grid'[x] = grid[x]]_vars

\* a completed search left Visited and Path cells beside the start, the goal
\* and a wall
SearchMarkedBesideWall ==
  /\ SearchCompleted
  /\ CellsOf(grid, "S") = {start} /\ CellsOf(grid, "G") = {goal}
  /\ CellsOf(grid, "W") # {}
  /\ CellsOf(grid, "V") # {} /\ CellsOf(grid, "P") # {}

\* C17: after any select-tool command and after any cell click, whatever the
\* active tool and whether or not the tool's rule accepts the click, no cell
\* is Visited or Path.
IsEditCommand == (\E t \in Tools : SetTool(t)) \/ (\E cell \in Coords : CellClick(cell))

EditDiscardsMarkings ==
  [][IsEditCommand => CellsOf(grid', "V") \cup CellsOf(grid', "P") = {}]_vars

\* a tool was selected after a search was interrupted by a rerun
ToolSelectedAfterSearch ==
  /\ message.kind = "ToolChanged"
  /\ running /\ pc = "idle"
  /\ start # None /\ goal # None /\ start # goal
  /\ CellsOf(grid, "V") \cup CellsOf(grid, "P") = {}

\* ---- where the exploration stops ----
GoalDiscovered == goal # None /\ goal \in DOMAIN parent

GoalDequeued == \E i \in DOMAIN dequeued : dequeued[i] = goal

\* a step inside bfs_search that leaves the frontier and the markings alone
ExplorationAtRest ==
  /\ queue' = queue
  /\ parent' = parent
  /\ CellsOf(grid', "V") \subseteq CellsOf(grid, "V")

\* C18, as stated: once the goal coordinate has been discovered (it is in the
\* parent map), no further coordinate is expanded and no further cell is
\* marked Visited.
DiscoveryStopsExploration ==
  [][(pc # "idle" /\ pc' # "idle" /\ GoalDiscovered) =>
       /\ parent' = parent
       /\ CellsOf(grid', "V") \subseteq CellsOf(grid, "V")]_vars

\* C18, amended: once the goal coordinate has been dequeued, no further
\* coordinate is dequeued or expanded and no further cell is marked Visited.
DequeueOfGoalStopsExploration ==
  [][(pc # "idle" /\ pc' # "idle" /\ GoalDequeued) => ExplorationAtRest]_vars

\* the search ended on the dequeue of the goal with coordinates still in the
\* frontier, after marking cells that were dequeued once the goal was known
StoppedWithFrontierLeft ==
  /\ SearchCompleted /\ Found
  /\ start # goal
  /\ dequeued[Len(dequeued)] = goal
  /\ queue # <<>>
  /\ \E j, i \in DOMAIN dequeued :
       /\ dequeued[j] = parent[goal]
       /\ j < i
       /\ grid[dequeued[i]] = "V"

\* ---- the frontier ----
\* the coordinates that have entered the frontier, in the order they entered
Entered == dequeued \o queue

\* C19: a search run dequeues at most rows*cols coordinates: each coordinate
\* enters the frontier at most once, and no Wall cell and no out-of-bounds
\* coordinate enters it.
FrontierBoundedAndOpen ==
  pc # "idle" =>
    /\ Len(dequeued) <= rows(grid) * cols(grid)
    /\ \A i, j \in DOMAIN Entered : Entered[i] = Entered[j] => i = j
    /\ \A i \in DOMAIN Entered :
         /\ Entered[i] \in Coords
         /\ grid[Entered[i]] # "W"

\* ---- the scenario with the wall of two cells ----
\* a 3x3 grid, start (0,0), goal (0,2), walls exactly at (0,1) and (1,1), and
\* the search completed
WallOfTwoSearched ==
  /\ SearchCompleted
  /\ rows(grid) = 3 /\ cols(grid) = 3
  /\ start = <<0, 0>> /\ grid[start] = "S"
  /\ goal = <<0, 2>> /\ grid[goal] = "G"
  /\ CellsOf(grid, "W") = {<<0, 1>>, <<1, 1>>}

DownAcrossUp ==
  << <<0, 0>>, <<1, 0>>, <<2, 0>>, <<2, 1>>, <<2, 2>>, <<1, 2>>, <<0, 2>> >>

\* C20, as stated: in that scenario the search goes down, across and up and
\* reports a hop count of 4.
WallOfTwoHopCountFour ==
  WallOfTwoSearched =>
    /\ Reverse(path) = DownAcrossUp
    /\ message = Msg("PathFound", None, "", 4)

\* C20, amended: in that scenario the search finds the path down the left
\* column, across the bottom row and up the right column, and reports a hop
\* count of 6.
WallOfTwoHopCountSix ==
  WallOfTwoSearched =>
    /\ Reverse(path) = DownAcrossUp
    /\ message = Msg("PathFound", None, "", 6)
    /\ CellsOf(grid, "P") = {<<1, 0>>, <<2, 0>>, <<2, 1>>, <<2, 2>>, <<1, 2>>}

\* the scenario was searched to the end and the path reported
WallOfTwoPathReported ==
  /\ WallOfTwoSearched
  /\ message.kind = "PathFound"
  /\ Len(path) = 7

\* ---- the endpoints apart ----

\* C21: a click with the Start tool leaves the cell marked Goal and goalCell
\* unchanged, and a click with the Goal tool leaves the cell marked Start and
\* startCell unchanged, whatever cell is clicked.
IsClickWith(tool) == current_tool = tool /\ \E cell \in Coords : CellClick(cell)

EndpointClicksKeepTheOther ==
  [][/\ IsClickWith("S") =>
          (CellsOf(grid', "G") = CellsOf(grid, "G") /\ goal' = goal)
     /\ IsClickWith("G") =>
          (CellsOf(grid', "S") = CellsOf(grid, "S") /\ start' = start)]_vars

\* ---- the reconstructed path ----

\* C22: whenever a search reports a path as found, the reconstructed path
\* begins at start and ends at goal, consecutive coordinates are 4-adjacent,
\* no coordinate is a Wall cell or outside the grid, and none appears twice.
ReportedPathIsAWalk ==
  (SearchCompleted /\ message.kind = "PathFound") =>
    LET p == Reverse(path)
    IN  /\ p # <<>>
        /\ p[1] = start /\ p[Len(p)] = goal
        /\ \A i \in 1..(Len(p) - 1) : Adjacent(p[i], p[i + 1])
        /\ \A i \in DOMAIN p : p[i] \in Coords /\ grid[p[i]] # "W"
        /\ \A i, j \in DOMAIN p : p[i] = p[j] => i = j

====
